---------------------------- MODULE Spec2Model ----------------------------
(* Model of src/main.py: the contact-form backend.                         *)
(*   POST /api/contact : validate -> persist -> notify -> respond           *)
(*   GET  /test        : diagnostic of the database handle and environment  *)
(* One request is handled at a time; the handler's position is pc.          *)
EXTENDS Integers, Sequences, FiniteSets, TLC

VARIABLES
    env,          \* process environment (os.getenv)
    db,           \* module-level database handle: present or None
    pc,           \* position of the request being handled
    payload,      \* body of the current POST /api/contact
    doc_id,       \* submit_contact: doc_id
    email_result, \* submit_contact: email_result
    port,         \* _send_confirmation_email: port
    pending,      \* exception raised inside the with block, not yet handled
    caught,       \* exception bound to e at line 133
    trace,        \* side effects started/finished for the current request
    status,       \* HTTP status of the finished request (0: none yet)
    response,     \* body returned by the finished request
    probe         \* behaviour of db during the current GET /test

vars == <<env, db, pc, payload, doc_id, email_result, port, pending, caught,
          trace, status, response, probe>>

-----------------------------------------------------------------------------
(* Bounds of the model                                                      *)

MaxNameOver == 1      \* names up to NameMax + MaxNameOver characters
MaxErrOver == 1       \* SMTP error messages up to ReasonMax + MaxErrOver
MaxCollsOver == 1     \* up to CollLimit + MaxCollsOver collections

(* Program constants                                                        *)

NameMin == 2
NameMax == 120
DescMin == 10
ReasonMax == 120
ProbeErrMax == 80
CollLimit == 10

-----------------------------------------------------------------------------
(* Python values                                                            *)

None == [some |-> FALSE]
Some(v) == [some |-> TRUE, val |-> v]

\* Python truthiness of an Optional[str]: None and "" are falsy.
Truthy(o) == o.some /\ o.val # ""

\* A string of n characters (content varies with the position).
Str(n) == [i \in 1..n |-> (i % 7)]

\* s[:n] for n >= 0
Slice(s, n) == SubSeq(s, 1, IF Len(s) < n THEN Len(s) ELSE n)

IsPrefix(p, s) == Len(p) <= Len(s) /\ \A i \in 1..Len(p) : p[i] = s[i]

\* os.getenv(k) and os.getenv(k, default)
getenv(k) == env[k]
getenv_default(k, d) == IF env[k].some THEN env[k] ELSE Some(d)

Digits == <<"0", "1", "2", "3", "4", "5", "6", "7", "8", "9">>
DigitVal(c) == (CHOOSE i \in 1..10 : Digits[i] = c) - 1
IsDigit(c) == \E i \in 1..10 : Digits[i] = c

RECURSIVE DecVal(_)
DecVal(s) == IF s = <<>> THEN 0
             ELSE 10 * DecVal(SubSeq(s, 1, Len(s) - 1)) + DigitVal(s[Len(s)])

\* int(s) on strings of plain characters: a value, or ValueError.
int(s) == IF s # <<>> /\ \A i \in 1..Len(s) : IsDigit(s[i])
          THEN [raises |-> FALSE, val |-> DecVal(s)]
          ELSE [raises |-> TRUE, val |-> 0]

-----------------------------------------------------------------------------
(* Inputs                                                                   *)

NameInputs == {None} \cup
    {Some(Str(n)) : n \in {NameMin - 1, NameMin} \cup (NameMax..(NameMax + MaxNameOver))}

DescInputs == {None, Some(Str(DescMin - 1)), Some(Str(DescMin))}

EmailInputs == {None,
    Some(<<"a", "@", "b", ".", "c">>),
    Some(<<"d", "@", "b", ".", "c">>),
    Some(<<"a", "b", ".", "c">>),
    Some(<<"a", "@", "b", "c">>),
    Some(<<"@", "b", ".", "c">>),
    Some(<<"a", "@", "@", "b", ".", "c">>),
    Some(<<"a", "@", "b", ".">>),
    Some(<<>>)}

Payloads == [name : NameInputs, email : EmailInputs, description : DescInputs]

NoPayload == [name |-> None, email |-> None, description |-> None]

\* Messages of the exceptions the SMTP client raises.
SmtpMsgs == {Str(n) : n \in {0, 1} \cup ((ReasonMax - 1)..(ReasonMax + MaxErrOver))}

\* Messages of the exceptions the database handle raises.
ProbeMsgs == {Str(n) : n \in {0, ProbeErrMax, ProbeErrMax + 1}}

\* What db.list_collection_names() returns.
CollLists == {[i \in 1..n |-> i] : n \in {0, 1} \cup (CollLimit..(CollLimit + MaxCollsOver))}

Ids == {"id1", "id2"}

NoExc == [raised |-> FALSE, msg |-> <<>>]
Exc(m) == [raised |-> TRUE, msg |-> m]

\* Behaviour of the database handle during one GET /test:
\*   hasName    hasattr(db, 'name')
\*   name       value of db.name
\*   nameExc    exception raised by reading db.name (other than AttributeError)
\*   colls      value of db.list_collection_names()
\*   listExc    exception raised by db.list_collection_names()
Probes == [hasName : BOOLEAN, name : {"appdb"},
           nameExc : {NoExc} \cup {Exc(m) : m \in ProbeMsgs},
           colls : CollLists,
           listExc : {NoExc} \cup {Exc(m) : m \in ProbeMsgs}]

NoProbe == [hasName |-> TRUE, name |-> "appdb", nameExc |-> NoExc,
            colls |-> <<>>, listExc |-> NoExc]

Envs == [SMTP_HOST : {None, Some("smtp.example.com")},
         SMTP_PORT : {None, Some(<<"2", "5">>), Some(<<"a", "b", "c">>)},
         SMTP_USER : {None, Some("user")},
         SMTP_PASS : {None, Some("secret")},
         SMTP_FROM : {None, Some(""), Some("from@example.com")},
         DATABASE_URL : {None, Some(""), Some("mongodb://db")},
         DATABASE_NAME : {None, Some("envdb")}]

DefaultPortStr == <<"5", "8", "7">>

-----------------------------------------------------------------------------
(* ContactSubmission: the request-body model checked by the framework       *)
(* before submit_contact is called.                                         *)

Count(s, c) == Cardinality({i \in 1..Len(s) : s[i] = c})

\* No empty label: no leading, trailing or doubled dot.
DotsOK(s) == /\ s # <<>>
             /\ s[1] # "."
             /\ s[Len(s)] # "."
             /\ \A i \in 1..(Len(s) - 1) : ~(s[i] = "." /\ s[i + 1] = ".")

\* EmailStr: local@domain, one "@", a dotted domain.
EmailStr(s) ==
    /\ Count(s, "@") = 1
    /\ LET at == CHOOSE i \in 1..Len(s) : s[i] = "@"
           local == SubSeq(s, 1, at - 1)
           domain == SubSeq(s, at + 1, Len(s))
       IN /\ DotsOK(local)
          /\ DotsOK(domain)
          /\ Count(domain, ".") >= 1

\* ContactSubmission with the name's max_length left out.
ContactSubmissionNoMax(p) ==
    /\ p.name.some
    /\ Len(p.name.val) >= NameMin
    /\ p.email.some
    /\ EmailStr(p.email.val)
    /\ p.description.some
    /\ Len(p.description.val) >= DescMin

ContactSubmission(p) ==
    /\ p.name.some
    /\ Len(p.name.val) >= NameMin
    /\ Len(p.name.val) <= NameMax
    /\ p.email.some
    /\ EmailStr(p.email.val)
    /\ p.description.some
    /\ Len(p.description.val) >= DescMin

-----------------------------------------------------------------------------
(* State                                                                    *)

NoResult == [sent |-> FALSE, reason |-> "<unset>"]
NoResponse == [kind |-> "none"]

Init ==
    /\ env \in Envs
    /\ db \in {None, Some("handle")}
    /\ pc = "idle"
    /\ payload = NoPayload
    /\ doc_id = None
    /\ email_result = NoResult
    /\ port = 0
    /\ pending = NoExc
    /\ caught = NoExc
    /\ trace = <<>>
    /\ status = 0
    /\ response = NoResponse
    /\ probe = NoProbe

\* POST /api/contact arrives: the framework builds ContactSubmission from the
\* body; on a validation error it answers 422 and the handler is not called.
ReceiveContact ==
    /\ pc = "idle"
    /\ \E p \in Payloads :
        /\ payload' = p
        /\ IF ContactSubmission(p)
           THEN /\ pc' = "persist"
                /\ UNCHANGED <<status, response>>
           ELSE /\ pc' = "done"
                /\ status' = 422
                /\ response' = [kind |-> "validation_error"]
    /\ UNCHANGED <<env, db, doc_id, email_result, port, pending, caught, trace, probe>>

\* create_document("contactsubmission", payload): a new identifier, or an
\* exception (no database configured, database unreachable, write error).
create_document ==
    IF db.some
    THEN {[raises |-> FALSE, id |-> i] : i \in Ids} \cup {[raises |-> TRUE, id |-> ""]}
    ELSE {[raises |-> TRUE, id |-> ""]}

Ev(e, ok) == [ev |-> e, ok |-> ok]

\* TryPersist returning early, without the notification, when the write fails.
TryPersistSkip(r) ==
    [doc_id |-> IF r.raises THEN None ELSE Some(r.id),
     pc |-> IF r.raises THEN "respond" ELSE "notify"]

\* submit_contact, lines 76-80: the try/except around create_document.
TryPersist(r) ==
    [doc_id |-> IF r.raises THEN None ELSE Some(r.id), pc |-> "notify"]

Persist ==
    /\ pc = "persist"
    /\ \E r \in create_document :
        /\ doc_id' = TryPersist(r).doc_id
        /\ pc' = TryPersist(r).pc
        /\ trace' = Append(trace, Ev("create_document", ~r.raises))
    /\ UNCHANGED <<env, db, payload, email_result, port, pending, caught,
                   status, response, probe>>

\* _send_confirmation_email, line 103
Configured(host, user, password, from_email) ==
    Truthy(host) /\ Truthy(user) /\ Truthy(password) /\ Truthy(from_email)

\* _send_confirmation_email, lines 104-107
NotConfiguredResult == [sent |-> FALSE, reason |-> "SMTP not configured"]

\* ExceptResult without the [:120].
ExceptResultNoCut(e) == [sent |-> FALSE, reason |-> e.msg]

\* _send_confirmation_email, lines 133-134: except Exception as e
ExceptResult(e) == [sent |-> FALSE, reason |-> Slice(e.msg, ReasonMax)]

\* _send_confirmation_email, lines 96-107: read the configuration.
\* int() is outside the try block: its ValueError leaves the function and
\* submit_contact, and the framework answers 500.
NotifyConfig ==
    /\ pc = "notify"
    /\ LET host == getenv("SMTP_HOST")
           p == int(getenv_default("SMTP_PORT", DefaultPortStr).val)
           user == getenv("SMTP_USER")
           password == getenv("SMTP_PASS")
           from_email == getenv_default("SMTP_FROM", IF Truthy(user) THEN user.val ELSE "")
       IN IF p.raises
          THEN /\ pc' = "done"
               /\ status' = 500
               /\ response' = [kind |-> "server_error"]
               /\ trace' = trace \o <<Ev("notify_start", TRUE), Ev("notify_return", FALSE)>>
               /\ UNCHANGED <<port, email_result>>
          ELSE /\ port' = p.val
               /\ UNCHANGED <<status, response>>
               /\ IF ~Configured(host, user, password, from_email)
                  THEN /\ email_result' = NotConfiguredResult
                       /\ pc' = "respond"
                       /\ trace' = trace \o <<Ev("notify_start", TRUE), Ev("notify_return", TRUE)>>
                  ELSE /\ pc' = "connect"
                       /\ trace' = Append(trace, Ev("notify_start", TRUE))
                       /\ UNCHANGED email_result
    /\ UNCHANGED <<env, db, payload, doc_id, pending, caught, probe>>

\* line 128: smtplib.SMTP(host, port) connects; a failure is caught at 133
\* (the with block was never entered, so no QUIT is sent).
SmtpConnect ==
    /\ pc = "connect"
    /\ \/ /\ pc' = "starttls"
          /\ trace' = Append(trace, Ev("connect", TRUE))
          /\ UNCHANGED <<caught, email_result>>
       \/ \E m \in SmtpMsgs :
            /\ caught' = Exc(m)
            /\ email_result' = ExceptResult(Exc(m))
            /\ pc' = "respond"
            /\ trace' = trace \o <<Ev("connect", FALSE), Ev("notify_return", TRUE)>>
    /\ UNCHANGED <<env, db, payload, doc_id, port, pending, status, response, probe>>

\* One call inside the with block: it returns, or raises and control leaves
\* the block through SMTP.__exit__.
WithStep(here, e, next) ==
    /\ pc = here
    /\ \/ /\ pc' = next
          /\ trace' = Append(trace, e)
          /\ UNCHANGED pending
       \/ \E m \in SmtpMsgs :
            /\ pending' = Exc(m)
            /\ pc' = "exit"
            /\ trace' = Append(trace, [e EXCEPT !.ok = FALSE])
    /\ UNCHANGED <<env, db, payload, doc_id, email_result, port, caught,
                   status, response, probe>>

\* line 129
SmtpStarttls == WithStep("starttls", Ev("starttls", TRUE), "login")

\* line 130
SmtpLogin == WithStep("login", Ev("login", TRUE), "sendmail")

\* line 131: sendmail(from_email, [to_email], ...)
SmtpSendmail ==
    WithStep("sendmail",
             [ev |-> "sendmail", ok |-> TRUE, to |-> <<payload.email.val>>],
             "exit")

\* SmtpExit reporting success whatever happened inside the with block.
SmtpExitAlwaysSent ==
    /\ pc = "exit"
    /\ caught' = pending
    /\ email_result' = [sent |-> TRUE]
    /\ trace' = trace \o <<Ev("quit", TRUE), Ev("notify_return", TRUE)>>
    /\ pending' = NoExc
    /\ pc' = "respond"
    /\ UNCHANGED <<env, db, payload, doc_id, port, status, response, probe>>

\* Leaving the with block (lines 128-134): SMTP.__exit__ sends QUIT.  A
\* disconnect is swallowed there; any other failure of QUIT is raised and
\* replaces the exception in flight.  Then line 132 or lines 133-134.
SmtpExit ==
    /\ pc = "exit"
    /\ \/ /\ caught' = pending
          /\ email_result' = IF pending.raised THEN ExceptResult(pending)
                                               ELSE [sent |-> TRUE]
          /\ trace' = trace \o <<Ev("quit", TRUE), Ev("notify_return", TRUE)>>
       \/ \E m \in SmtpMsgs :
            /\ caught' = Exc(m)
            /\ email_result' = ExceptResult(Exc(m))
            /\ trace' = trace \o <<Ev("quit", FALSE), Ev("notify_return", TRUE)>>
    /\ pending' = NoExc
    /\ pc' = "respond"
    /\ UNCHANGED <<env, db, payload, doc_id, port, status, response, probe>>

Ack == "Thanks. We've received your details and will be in touch shortly."

\* submit_contact, lines 84-89
Respond ==
    /\ pc = "respond"
    /\ response' = [kind |-> "contact", ok |-> TRUE, id |-> doc_id,
                    email |-> email_result, message |-> Ack]
    /\ status' = 200
    /\ pc' = "done"
    /\ trace' = Append(trace, Ev("respond", TRUE))
    /\ UNCHANGED <<env, db, payload, doc_id, email_result, port, pending, caught, probe>>

-----------------------------------------------------------------------------
(* GET /test                                                                *)

Text(t) == [text |-> t, detail |-> <<>>]
ErrText(t, e) == [text |-> t, detail |-> Slice(e.msg, ProbeErrMax)]

\* test_database, lines 43-69.  The labels are the source's without their
\* leading symbols.
test_database(pr) ==
    LET r0 == [kind |-> "test",
               backend |-> "Running",
               database |-> Text("Not Available"),
               database_url |-> "Not Set",
               database_name |-> "Not Set",
               connection_status |-> "Not Connected",
               collections |-> <<>>]
        r1 == [r0 EXCEPT !.database = Text("Available"),
                         !.database_url = IF Truthy(getenv("DATABASE_URL"))
                                          THEN "Set" ELSE "Not Set"]
        r2 == [r1 EXCEPT !.database_name =
                    IF pr.hasName THEN pr.name
                    ELSE IF Truthy(getenv("DATABASE_NAME"))
                         THEN getenv("DATABASE_NAME").val ELSE "Unknown"]
    IN IF ~db.some
       THEN [r0 EXCEPT !.database = Text("Available but not initialized")]
       ELSE IF pr.nameExc.raised
       THEN [r1 EXCEPT !.database = ErrText("Error: ", pr.nameExc)]
       ELSE IF pr.listExc.raised
       THEN [r2 EXCEPT !.database = ErrText("Connected but Error: ", pr.listExc)]
       ELSE [r2 EXCEPT !.collections = Slice(pr.colls, CollLimit),
                       !.database = Text("Connected & Working"),
                       !.connection_status = "Connected"]

TestDatabase ==
    /\ pc = "idle"
    /\ \E pr \in (IF db.some THEN Probes ELSE {NoProbe}) :
        /\ probe' = pr
        /\ response' = test_database(pr)
    /\ status' = 200
    /\ pc' = "done"
    /\ trace' = <<Ev("test", TRUE)>>
    /\ UNCHANGED <<env, db, payload, doc_id, email_result, port, pending, caught>>

\* The request is over; nothing of it is kept for the next one.
Finish ==
    /\ pc = "done"
    /\ pc' = "idle"
    /\ payload' = NoPayload
    /\ doc_id' = None
    /\ email_result' = NoResult
    /\ port' = 0
    /\ pending' = NoExc
    /\ caught' = NoExc
    /\ trace' = <<>>
    /\ status' = 0
    /\ response' = NoResponse
    /\ probe' = NoProbe
    /\ UNCHANGED <<env, db>>

Next ==
    \/ ReceiveContact
    \/ Persist
    \/ NotifyConfig
    \/ SmtpConnect
    \/ SmtpStarttls
    \/ SmtpLogin
    \/ SmtpSendmail
    \/ SmtpExit
    \/ Respond
    \/ TestDatabase
    \/ Finish

Spec == Init /\ [][Next]_vars

-----------------------------------------------------------------------------
(* Properties                                                               *)

Has(e) == \E i \in 1..Len(trace) : trace[i] = e
Times(name) == Cardinality({i \in 1..Len(trace) : trace[i].ev = name})

\* A POST /api/contact is being handled or has just been answered.
InContact == pc # "idle" /\ ~Has(Ev("test", TRUE))
ContactOver == pc = "done" /\ InContact

\* The mail settings as _send_confirmation_email resolves them.
MailConfigured ==
    LET user == getenv("SMTP_USER")
    IN Configured(getenv("SMTP_HOST"), user, getenv("SMTP_PASS"),
                  getenv_default("SMTP_FROM", IF Truthy(user) THEN user.val ELSE ""))

SmtpSteps == <<"connect", "starttls", "login", "sendmail">>
IsSmtpStep(e) == \E k \in 1..Len(SmtpSteps) : SmtpSteps[k] = e.ev
SmtpEvents == SelectSeq(trace, IsSmtpStep)
AllFourDone == \A k \in 1..Len(SmtpSteps) :
                  \E i \in 1..Len(trace) : trace[i].ev = SmtpSteps[k] /\ trace[i].ok

\* The submission violates a constraint the specification states.
Malformed(p) ==
    \/ ~p.name.some
    \/ ~p.email.some
    \/ ~p.description.some
    \/ Len(p.name.val) < 2
    \/ Len(p.name.val) > 120
    \/ Len(p.description.val) < 10
    \/ ~EmailStr(p.email.val)

\* C1: a submission with a name shorter than 2 or longer than 120, a
\* description shorter than 10, an invalid email or a missing required field
\* ends in a client error, and neither create_document nor
\* _send_confirmation_email is started for it.
C1_ValidationGate ==
    (InContact /\ Malformed(payload)) =>
        /\ pc = "done"
        /\ status = 422
        /\ trace = <<>>
        /\ doc_id = None
        /\ email_result = NoResult

C1_Witness ==
    /\ ContactOver
    /\ status = 422
    /\ payload.name.some
    /\ Len(payload.name.val) > 120
    /\ payload.description.some
    /\ Len(payload.description.val) >= 10
    /\ payload.email.some
    /\ EmailStr(payload.email.val)

\* C2: for every valid submission whose persistence attempt failed,
\* submit_contact does not abort: the request ends with the success response,
\* ok == true and id == null.
C2_PersistFailureStillSucceeds ==
    (ContactOver /\ Has(Ev("create_document", FALSE))) =>
        /\ status = 200
        /\ response.kind = "contact"
        /\ response.ok
        /\ response.id = None

\* C3: for every valid submission, when mail is unconfigured the request
\* succeeds with ok == true, email.sent == false and email.reason exactly
\* "not configured".
C3_NotConfiguredReason ==
    (ContactOver /\ ContactSubmission(payload) /\ ~MailConfigured) =>
        /\ status = 200
        /\ response.kind = "contact"
        /\ response.ok
        /\ response.email = [sent |-> FALSE, reason |-> "not configured"]

\* C4: for every valid submission, every outcome of persistence and mail and
\* every setting of the environment, submit_contact ends with the success
\* response and _send_confirmation_email returns a result instead of raising.
C4_OnlyValidationFails ==
    (ContactOver /\ ContactSubmission(payload)) =>
        /\ status = 200
        /\ response.kind = "contact"
        /\ response.ok
        /\ ~Has(Ev("notify_return", FALSE))

\* C5: in every handling of a valid submission the notification is attempted
\* exactly once, after the persistence attempt has finished and whether it
\* succeeded or failed; the response is produced only after both have
\* finished.
C5_PersistThenNotifyOnce ==
    InContact =>
        /\ Times("notify_start") <= 1
        /\ Times("create_document") <= 1
        /\ \A i \in 1..Len(trace) :
             trace[i].ev = "notify_start" =>
                \E j \in 1..(i - 1) : trace[j].ev = "create_document"
        /\ \A i \in 1..Len(trace) :
             trace[i].ev = "respond" =>
                /\ \E j \in 1..(i - 1) : trace[j].ev = "create_document"
                /\ \E j \in 1..(i - 1) : trace[j] = Ev("notify_return", TRUE)
        /\ (pc = "done" /\ ContactSubmission(payload)) =>
                Times("create_document") = 1 /\ Times("notify_start") = 1

C5_Witness ==
    /\ ContactOver
    /\ status = 200
    /\ Has(Ev("create_document", FALSE))
    /\ Has(Ev("notify_start", TRUE))
    /\ Has(Ev("respond", TRUE))

\* C6: when host, user, credential or from-address is missing,
\* _send_confirmation_email returns sent == false and no connect, starttls,
\* login or sendmail happens for the request.
C6_UnconfiguredReturnsNoConnection ==
    (InContact /\ Times("notify_return") > 0 /\ ~MailConfigured) =>
        /\ Has(Ev("notify_return", TRUE))
        /\ email_result.sent = FALSE
        /\ SmtpEvents = <<>>

\* C7: the reason built from a caught transport or authentication failure is
\* a prefix of the error's message and at most 120 characters long.
C7_ReasonTruncated ==
    caught.raised =>
        /\ email_result.sent = FALSE
        /\ IsPrefix(email_result.reason, caught.msg)
        /\ Len(email_result.reason) <= 120
        /\ (Len(caught.msg) <= 120 => email_result.reason = caught.msg)

C7_Witness ==
    /\ caught.raised
    /\ Len(caught.msg) > 120
    /\ Len(email_result.reason) = 120

TestFields == {"backend", "database", "database_url", "database_name",
               "connection_status", "collections"}

\* The response GET /test would give had no probe failed.
Unfailed == test_database([probe EXCEPT !.nameExc = NoExc, !.listExc = NoExc])

\* C8: GET /test always answers; when exactly one probe fails (reading the
\* database name, or listing collections) only the fields of that probe are
\* degraded, every other field has the value it has without the failure, and
\* collections holds at most 10 names.
C8_ProbesIndependent ==
    (pc = "done" /\ Has(Ev("test", TRUE))) =>
        /\ status = 200
        /\ Len(response.collections) <= 10
        /\ (probe.nameExc.raised /\ ~probe.listExc.raised) =>
              \A f \in TestFields \ {"database_name"} : response[f] = Unfailed[f]
        /\ (probe.listExc.raised /\ ~probe.nameExc.raised) =>
              \A f \in {"backend", "database_url", "database_name"} :
                  response[f] = Unfailed[f]

\* C9: database_url of GET /test reads as set exactly when DATABASE_URL is
\* non-empty, with or without a database handle; with no database the
\* database field says not initialized and collections is empty.
C9_DatabaseUrlReported ==
    (pc = "done" /\ Has(Ev("test", TRUE))) =>
        /\ (response.database_url = "Set") <=> Truthy(getenv("DATABASE_URL"))
        /\ ~db.some =>
              /\ response.database = Text("Available but not initialized")
              /\ response.collections = <<>>

\* What C10 says of the order of the SMTP steps, of the recipient and of a
\* failed step.
SmtpOrderAndFailure ==
    /\ Len(SmtpEvents) <= Len(SmtpSteps)
    /\ \A k \in 1..Len(SmtpEvents) :
          /\ SmtpEvents[k].ev = SmtpSteps[k]
          /\ SmtpEvents[k].ev = "sendmail" => SmtpEvents[k].to = <<payload.email.val>>
          /\ ~SmtpEvents[k].ok => k = Len(SmtpEvents)
    /\ SmtpEvents # <<>> => MailConfigured
    /\ (Has(Ev("notify_return", TRUE)) /\ \E k \in 1..Len(SmtpEvents) : ~SmtpEvents[k].ok) =>
          /\ email_result.sent = FALSE
          /\ email_result.reason = Slice(caught.msg, 120)

=============================================================================
